---- MODULE Spec2Model ----
(***************************************************************************)
(* A model of the tiered commitment tree `Eternity` (src/src/eternity.rs): *)
(* a Tier of Epochs, each a Tier of Blocks, each a Tier of Items, plus the *)
(* global index from Commitment to (epoch, block, item).                   *)
(*                                                                         *)
(* eternity.rs is modelled from its code.  The generic Tier, the Epoch and *)
(* Block wrappers and the proof module are not part of the source tree;    *)
(* they are modelled from the written specification (sections 4.1, 4.2,    *)
(* 4.4 and 4.5) and are marked as such where they are defined.             *)
(***************************************************************************)
EXTENDS Integers, Sequences, FiniteSets, TLC

VARIABLES
    index,      \* Eternity.index : Commitment -> index::within::Eternity
    inner,      \* Eternity.inner : Tier<Tier<Tier<Item>>>
    cache,      \* the memoized root hash of Eternity.inner
    ret,        \* the last call and what it returned
    steps,      \* the number of calls made so far
    seen,       \* history: every value root() had in an earlier state
    before,     \* history: per commitment, the roots seen before its latest Keep insertion
    kept,       \* history: the commitments ever inserted in Keep mode
    other,      \* a second Eternity, given the same insertions at other retention
    agree,      \* every call so far succeeded on both eternities
    errs,       \* history: the <<operation, error>> pairs insertions have failed with
    since_full, \* history: the calls that succeeded after an epoch was first refused
    shape,      \* the epoch count and most recent epoch of an eternity len() is read on
    readers,    \* per reader with shared access: where it is in its root() or witness() call
    store,      \* the validator store: bonding state by identity key, stake parameters
    reply       \* the last call on the validator store and what it returned

vars == <<index, inner, cache, ret, steps, seen, before, kept, other, agree, errs,
          since_full, shape, readers, store, reply>>

-----------------------------------------------------------------------------
(* Bounds of the model *)

\* The number of distinct commitments callers use.
NumCommitments == 2
\* The capacity of every Tier (65,536 in the program), scaled down.
Cap == 2
\* The number of calls in a run.
MaxOps == 3
\* How many epoch counts next to zero, and next to the capacity of the
\* eternity, len() is read at.
LenNear == 4
\* How many epoch numbers next to zero, and next to u64::MAX, the stake
\* component is called with.
EpochNear == 2
\* The number of callers reading one eternity at the same time.
NumReaders == 2
\* How many voting powers next to zero, next below and next above the
\* maximum set_validator_power is called with.
PowerNear == 1

Commitments == 1..NumCommitments

Readers == 1..NumReaders

-----------------------------------------------------------------------------
(* Hashes: a collision-free term algebra *)

NoHash == [k |-> "none", c |-> 0, ch |-> <<>>]
\* The fixed hash of a never-opened slot.
EmptyHash == [k |-> "empty", c |-> 0, ch |-> <<>>]
\* Hash::of(commitment)
HashOf(c) == [k |-> "leaf", c |-> c, ch |-> <<>>]
\* A digest supplied by a caller that is the hash of no structure.
OpaqueHash(n) == [k |-> "opaque", c |-> n, ch |-> <<>>]
\* The combine function deriving a parent hash from its children's hashes.
Combine(children) == [k |-> "node", c |-> 0, ch |-> children]

-----------------------------------------------------------------------------
(* Insert<T> = Keep(T) | Hash(Hash) *)

KeepItem(c) == [tag |-> "Keep", hash |-> NoHash, val |-> c]
HashItem(h) == [tag |-> "Hash", hash |-> h, val |-> 0]
KeepTier(t) == [tag |-> "Keep", hash |-> NoHash, val |-> t]
HashTier(h) == [tag |-> "Hash", hash |-> h, val |-> <<>>]

EmptyIndex == <<>>

-----------------------------------------------------------------------------
(* Tier<X> (section 4.1) *)

Pad(hs) == hs \o [i \in 1..(Cap - Len(hs)) |-> EmptyHash]

\* The hash an item slot contributes: the same whether kept or summarized.
item_hash(s) == IF s.tag = "Keep" THEN HashOf(s.val) ELSE s.hash

\* Tier<Item>::hash
block_hash(bt) == Combine(Pad([i \in 1..Len(bt) |-> item_hash(bt[i])]))

block_slot_hash(s) == IF s.tag = "Keep" THEN block_hash(s.val) ELSE s.hash

\* Tier<Tier<Item>>::hash
epoch_hash(et) == Combine(Pad([i \in 1..Len(et) |-> block_slot_hash(et[i])]))

epoch_slot_hash(s) == IF s.tag = "Keep" THEN epoch_hash(s.val) ELSE s.hash

\* Tier<Tier<Tier<Item>>>::hash, computed from scratch
tier_hash(t) == Combine(Pad([i \in 1..Len(t) |-> epoch_slot_hash(t[i])]))

Dirty == [valid |-> FALSE, h |-> NoHash]
Cached(h) == [valid |-> TRUE, h |-> h]

\* Tier::hash: the memoized root, recomputed when dirty.
cached_hash(t, memo) == IF memo.valid THEN memo.h ELSE tier_hash(t)

\* Tier::hash, its read of the memoized hash: a hit returns it, a miss
\* recombines the hashes of the tree.
hash_load(t, memo) ==
    IF memo.valid THEN [hit |-> TRUE, h |-> memo.h] ELSE [hit |-> FALSE, h |-> tier_hash(t)]

\* Mutant: a hash stored over one already memoized takes it out instead.
hash_store_swaps(memo, h) == IF memo.valid THEN Dirty ELSE Cached(h)

\* Tier::hash, its write of the hash it recombined.
hash_store(memo, h) == Cached(h)

\* A reader that is in no call.
Idle == [pc |-> "idle", op |-> "", c |-> 0, h |-> NoHash, wrote |-> FALSE]

\* Mutant: the capacity test lets one slot too many in.
tier_insert_one_more(t, slot) ==
    IF Len(t) > Cap
    THEN [ok |-> FALSE, t |-> t, back |-> slot]
    ELSE [ok |-> TRUE, t |-> Append(t, slot), back |-> slot]

\* Tier::insert: fails at capacity, handing the value back; otherwise appends.
tier_insert(t, slot) ==
    IF Len(t) >= Cap
    THEN [ok |-> FALSE, t |-> t, back |-> slot]
    ELSE [ok |-> TRUE, t |-> Append(t, slot), back |-> slot]

\* Mutant: the forgotten leaf is replaced by the hash of an empty slot.
forgotten_item_empty(s) == HashItem(EmptyHash)

\* What Tier::forget leaves in place of a kept item.
forgotten_item(s) == HashItem(HashOf(s.val))

\* Mutant: a block left without a kept leaf is collapsed into its hash.
tier_forget_collapses(t, p) ==
    LET e == p.epoch + 1
        b == p.block + 1
        i == p.item + 1
        no == [inner |-> t, forgotten |-> FALSE]
    IN  IF e > Len(t) \/ t[e].tag # "Keep" THEN no
        ELSE IF b > Len(t[e].val) \/ t[e].val[b].tag # "Keep" THEN no
        ELSE IF i > Len(t[e].val[b].val) \/ t[e].val[b].val[i].tag # "Keep" THEN no
        ELSE LET bt == [t[e].val[b].val EXCEPT ![i] = forgotten_item(@)]
             IN  [inner |-> IF \E j \in 1..Len(bt) : bt[j].tag = "Keep"
                            THEN [t EXCEPT ![e].val[b].val = bt]
                            ELSE [t EXCEPT ![e].val[b] = HashTier(block_hash(bt))],
                  forgotten |-> TRUE]

\* Tier::forget at a position: a Full leaf becomes Summary(its hash).
tier_forget(t, p) ==
    LET e == p.epoch + 1
        b == p.block + 1
        i == p.item + 1
        no == [inner |-> t, forgotten |-> FALSE]
    IN  IF e > Len(t) \/ t[e].tag # "Keep" THEN no
        ELSE IF b > Len(t[e].val) \/ t[e].val[b].tag # "Keep" THEN no
        ELSE IF i > Len(t[e].val[b].val) \/ t[e].val[b].val[i].tag # "Keep" THEN no
        ELSE [inner |-> [t EXCEPT ![e].val[b].val[i] = forgotten_item(@)],
              forgotten |-> TRUE]

Others(hs, k) == [j \in 1..(Len(hs) - 1) |-> IF j < k THEN hs[j] ELSE hs[j + 1]]

NoPath == [some |-> FALSE, auth_path |-> <<>>, leaf |-> NoHash]

\* Tier::witness at a position: None at the first Summary node on the path.
tier_witness(t, p) ==
    LET e == p.epoch + 1
        b == p.block + 1
        i == p.item + 1
    IN  IF e > Len(t) \/ t[e].tag # "Keep" THEN NoPath
        ELSE IF b > Len(t[e].val) \/ t[e].val[b].tag # "Keep" THEN NoPath
        ELSE IF i > Len(t[e].val[b].val) \/ t[e].val[b].val[i].tag # "Keep" THEN NoPath
        ELSE LET et == t[e].val
                 bt == et[b].val
             IN  [some |-> TRUE,
                  auth_path |->
                    << Others(Pad([j \in 1..Len(bt) |-> item_hash(bt[j])]), i),
                       Others(Pad([j \in 1..Len(et) |-> block_slot_hash(et[j])]), b),
                       Others(Pad([j \in 1..Len(t) |-> epoch_slot_hash(t[j])]), e) >>,
                  leaf |-> item_hash(bt[i])]

-----------------------------------------------------------------------------
(* Positions and indices *)

Position(e, b, i) == [epoch |-> e, block |-> b, item |-> i]

\* HashedMap::insert: the map with key c set to p.
IndexInsert(idx, c, p) ==
    [x \in DOMAIN idx \cup {c} |-> IF x = c THEN p ELSE idx[x]]

\* HashedMap::remove
IndexRemove(idx, c) == [x \in DOMAIN idx \ {c} |-> idx[x]]

RECURSIVE ForgetAll(_, _)
\* Tier::forget applied to each of a set of positions.
ForgetAll(t, ps) ==
    IF ps = {} THEN [inner |-> t, forgotten |-> TRUE]
    ELSE LET p == CHOOSE x \in ps : TRUE
             one == tier_forget(t, p)
             rest == ForgetAll(one.inner, ps \ {p})
         IN  [inner |-> rest.inner, forgotten |-> one.forgotten /\ rest.forgotten]

-----------------------------------------------------------------------------
(* EpochMut and BlockMut with a threaded index (sections 4.2 and 4.4) *)

\* EpochMut::insert with the index handle of an ancestor: the open epoch's
\* tier `et` sits at `this_epoch`; index writes go to `idx`, fully composed.
epoch_mut_insert(et, idx, this_epoch, item) ==
    LET opened == IF Len(et) = 0 THEN tier_insert(et, KeepTier(<<>>)) ELSE [ok |-> TRUE, t |-> et]
        et1 == opened.t
        n == Len(et1)
        fail(e) == [ok |-> FALSE, err |-> e, et |-> et1, index |-> idx, replaced |-> {}]
    IN  IF ~opened.ok THEN fail("Full")
        ELSE IF et1[n].tag # "Keep" THEN fail("BlockForgotten")
        ELSE LET r == tier_insert(et1[n].val, item)
             IN  IF ~r.ok THEN fail("BlockFull")
                 ELSE LET et2 == [et1 EXCEPT ![n].val = r.t]
                          here == Position(this_epoch, n - 1, Len(r.t) - 1)
                      IN  IF item.tag = "Keep"
                          THEN [ok |-> TRUE, err |-> "", et |-> et2,
                                index |-> IndexInsert(idx, item.val, here),
                                replaced |-> IF item.val \in DOMAIN idx
                                             THEN {idx[item.val]} ELSE {}]
                          ELSE [ok |-> TRUE, err |-> "", et |-> et2,
                                index |-> idx, replaced |-> {}]

\* EpochMut::insert_block_or_root with the index handle of an ancestor: the
\* block's local index is absorbed into `idx` with the position prefix
\* composed; on failure the block is handed back and nothing changes.
epoch_mut_insert_block_or_root(et, idx, this_epoch, block) ==
    LET slot == IF block.tag = "Keep" THEN KeepTier(block.val.inner) ELSE HashTier(block.hash)
        block_index == IF block.tag = "Keep" THEN block.val.index ELSE EmptyIndex
        this_block == Len(et)
        r == tier_insert(et, slot)
    IN  IF ~r.ok
        THEN [ok |-> FALSE, et |-> et, index |-> idx, replaced |-> {}, back |-> block]
        ELSE [ok |-> TRUE, et |-> r.t, back |-> block,
              index |-> [c \in DOMAIN idx \cup DOMAIN block_index |->
                            IF c \in DOMAIN block_index
                            THEN Position(this_epoch, this_block, block_index[c])
                            ELSE idx[c]],
              replaced |-> {idx[c] : c \in DOMAIN idx \cap DOMAIN block_index}]

-----------------------------------------------------------------------------
(* Block and Epoch values built on their own, as callers hand them in *)

BlockNew == [index |-> EmptyIndex, inner |-> <<>>]
EpochNew == [index |-> EmptyIndex, inner |-> <<>>]

KeepBlock(b) == [tag |-> "Keep", hash |-> NoHash, val |-> b]
HashBlock(h) == [tag |-> "Hash", hash |-> h, val |-> BlockNew]
KeepEpoch(e) == [tag |-> "Keep", hash |-> NoHash, val |-> e]
HashEpoch(h) == [tag |-> "Hash", hash |-> h, val |-> EpochNew]

\* What a call hands back to its caller when it fails.
NoBack == [kind |-> "none", c |-> 0, block |-> BlockNew, epoch |-> EpochNew, h |-> NoHash]
\* Err(commitment)
BackCommitment(c) == [NoBack EXCEPT !.kind = "commitment", !.c = c]
\* An error carrying a Block
BackBlock(b) == [NoBack EXCEPT !.kind = "block", !.block = b]
\* An error carrying an Epoch
BackEpoch(e) == [NoBack EXCEPT !.kind = "epoch", !.epoch = e]
\* An error carrying a Hash
BackHash(h) == [NoBack EXCEPT !.kind = "hash", !.h = h]
\* An error carrying nothing
BackUnit == [NoBack EXCEPT !.kind = "unit"]

\* A result with the value its error carries.
Returned(r, back) ==
    [ok |-> r.ok, err |-> r.err, st |-> r.st, asserted |-> r.asserted,
     back |-> IF r.ok THEN NoBack ELSE back]

\* A result whose error carries the Block that was refused.
ReturnedBlock(r) == Returned(r, BackBlock(r.rejected.val))

\* A result whose error carries the Epoch that was refused.
ReturnedEpoch(r) == Returned(r, BackEpoch(r.rejected.val))

\* Block::insert on a free-standing block: the index is the block's own, and
\* an evicted earlier offset is forgotten at once.
block_insert(b, item) ==
    LET r == tier_insert(b.inner, item)
    IN  IF ~r.ok THEN b
        ELSE IF item.tag # "Keep" THEN [index |-> b.index, inner |-> r.t]
        ELSE [index |-> IndexInsert(b.index, item.val, Len(r.t) - 1),
              inner |-> IF item.val \in DOMAIN b.index
                        THEN [r.t EXCEPT ![b.index[item.val] + 1] = forgotten_item(@)]
                        ELSE r.t]

RECURSIVE BlockOf(_)
\* The block a caller gets by inserting the items of `s` in order.
BlockOf(s) ==
    IF s = <<>> THEN BlockNew
    ELSE block_insert(BlockOf(SubSeq(s, 1, Len(s) - 1)), s[Len(s)])

\* Block::root
block_root(b) == block_hash(b.inner)

\* Epoch::insert_block_or_root on a free-standing epoch.
epoch_insert_block_or_root(ep, block) ==
    LET full == [c \in DOMAIN ep.index |-> Position(0, ep.index[c].block, ep.index[c].item)]
        r == epoch_mut_insert_block_or_root(ep.inner, full, 0, block)
        cleaned == ForgetAll(<<KeepTier(r.et)>>, r.replaced).inner[1].val
    IN  IF ~r.ok THEN ep
        ELSE [index |-> [c \in DOMAIN r.index |->
                            [block |-> r.index[c].block, item |-> r.index[c].item]],
              inner |-> cleaned]

RECURSIVE EpochOf(_)
\* The epoch a caller gets by inserting the blocks (or block roots) of `s`.
EpochOf(s) ==
    IF s = <<>> THEN EpochNew
    ELSE epoch_insert_block_or_root(EpochOf(SubSeq(s, 1, Len(s) - 1)), s[Len(s)])

\* Epoch::root
epoch_root(ep) == epoch_hash(ep.inner)

-----------------------------------------------------------------------------
(* Proof and verify (section 4.5) *)

InsertAt(sibs, k, h) ==
    [j \in 1..(Len(sibs) + 1) |->
        IF j < k THEN sibs[j] ELSE IF j = k THEN h ELSE sibs[j - 1]]

None == [some |-> FALSE, index |-> Position(0, 0, 0), auth_path |-> <<>>, leaf |-> 0]

\* The root a proof commits to, recombined level by level.
proof_root(proof) ==
    LET h1 == Combine(InsertAt(proof.auth_path[1], proof.index.item + 1, HashOf(proof.leaf)))
        h2 == Combine(InsertAt(proof.auth_path[2], proof.index.block + 1, h1))
    IN  Combine(InsertAt(proof.auth_path[3], proof.index.epoch + 1, h2))

\* Mutant: the shape check counts the proven node among its siblings.
verify_counts_self(proof, claimed_root) ==
    IF \/ Len(proof.auth_path) # 3
       \/ \E l \in 1..3 : Len(proof.auth_path[l]) # Cap
    THEN "StructuralMismatch"
    ELSE IF proof_root(proof) = claimed_root THEN "Ok" ELSE "DigestMismatch"

\* Proof::verify: a structural mismatch for a path of the wrong shape, a
\* digest mismatch for a well-formed path that recombines to another root.
verify(proof, claimed_root) ==
    IF \/ Len(proof.auth_path) # 3
       \/ \E l \in 1..3 : Len(proof.auth_path[l]) # Cap - 1
       \/ proof.index.item >= Cap \/ proof.index.block >= Cap \/ proof.index.epoch >= Cap
    THEN "StructuralMismatch"
    ELSE IF proof_root(proof) = claimed_root THEN "Ok" ELSE "DigestMismatch"

-----------------------------------------------------------------------------
(* Eternity (src/src/eternity.rs) *)

Eternity(i, t, m) == [index |-> i, inner |-> t, cache |-> m]

\* Eternity::new
EternityNew == Eternity(EmptyIndex, <<>>, Dirty)

\* Eternity::root
root(st) == cached_hash(st.inner, st.cache)

\* Mutant: an eternity whose epochs hold no block counts as empty.
is_empty_without_blocks(st) ==
    \A n \in 1..Len(st.inner) : st.inner[n].tag = "Keep" /\ Len(st.inner[n].val) = 0

\* Eternity::is_empty
is_empty(st) == Len(st.inner) = 0

\* Eternity::witness
witness(st, item) ==
    IF item \notin DOMAIN st.index THEN None
    ELSE LET w == tier_witness(st.inner, st.index[item])
         IN  IF ~w.some THEN None
             ELSE [some |-> TRUE, index |-> st.index[item],
                   auth_path |-> w.auth_path, leaf |-> item]

\* The debug assertion of Eternity::witness: the leaf found is the item's hash.
witness_asserted(st, item) ==
    (item \in DOMAIN st.index /\ tier_witness(st.inner, st.index[item]).some)
        => tier_witness(st.inner, st.index[item]).leaf = HashOf(item)

\* Mutant: reports what would be forgotten and returns before forgetting it.
forget_reports_only(st, item) ==
    [st |-> st, forgotten |-> item \in DOMAIN st.index, asserted |-> TRUE]

\* Mutant: an epoch left without a witnessed leaf gives its slot back.
forget_reclaims_epoch(st, item) ==
    IF item \in DOMAIN st.index
    THEN LET f == tier_forget(st.inner, st.index[item])
             idx == IndexRemove(st.index, item)
             n == Len(f.inner)
         IN  [st |-> Eternity(idx,
                              IF \E c \in DOMAIN idx : idx[c].epoch = n - 1
                              THEN f.inner ELSE SubSeq(f.inner, 1, n - 1),
                              st.cache),
              forgotten |-> TRUE, asserted |-> f.forgotten]
    ELSE [st |-> st, forgotten |-> FALSE, asserted |-> TRUE]

\* Mutant: the offset of the forgotten leaf is given to the leaf behind it:
\* the entries of its block with a higher offset move up by one.
forget_reclaims_position(st, item) ==
    IF item \in DOMAIN st.index
    THEN LET f == tier_forget(st.inner, st.index[item])
             p == st.index[item]
         IN  [st |-> Eternity([c \in DOMAIN st.index \ {item} |->
                                  IF /\ st.index[c].epoch = p.epoch
                                     /\ st.index[c].block = p.block
                                     /\ st.index[c].item > p.item
                                  THEN [st.index[c] EXCEPT !.item = @ - 1]
                                  ELSE st.index[c]],
                              f.inner, st.cache),
              forgotten |-> TRUE, asserted |-> f.forgotten]
    ELSE [st |-> st, forgotten |-> FALSE, asserted |-> TRUE]

\* Mutant: the leaf is forgotten in the tree and its index entry stays.
forget_keeps_entry(st, item) ==
    IF item \in DOMAIN st.index
    THEN LET f == tier_forget(st.inner, st.index[item])
         IN  [st |-> Eternity(st.index, f.inner, st.cache),
              forgotten |-> TRUE, asserted |-> f.forgotten]
    ELSE [st |-> st, forgotten |-> FALSE, asserted |-> TRUE]

\* Eternity::forget
forget(st, item) ==
    IF item \in DOMAIN st.index
    THEN LET f == tier_forget(st.inner, st.index[item])
         IN  [st |-> Eternity(IndexRemove(st.index, item), f.inner, st.cache),
              forgotten |-> TRUE, asserted |-> f.forgotten]
    ELSE [st |-> st, forgotten |-> FALSE, asserted |-> TRUE]

\* Mutant: the replaced index of an epoch's item is left as it was.
forget_replaced_by_epoch_skipped(t, replaced) == [inner |-> t, forgotten |-> TRUE]

\* The replaced index of an epoch's item is forgotten as it is merged.
forget_replaced_by_epoch(t, replaced) == ForgetAll(t, replaced)

\* Mutant: the epoch handed back has lost its index.
rejected_epoch_without_index(slot, epoch_index) ==
    IF slot.tag = "Hash" THEN HashEpoch(slot.hash)
    ELSE KeepEpoch([index |-> EmptyIndex, inner |-> slot.val])

\* The Insert<Epoch> rebuilt from what Tier::insert handed back.
rejected_epoch(slot, epoch_index) ==
    IF slot.tag = "Hash" THEN HashEpoch(slot.hash)
    ELSE KeepEpoch([index |-> epoch_index, inner |-> slot.val])

\* Mutant: the epoch's index is merged before the tier is asked to take it.
refused_after_merge(st, merged) == Eternity(merged, st.inner, st.cache)

\* What a refused epoch leaves of the eternity: the index is merged only
\* once the tier has taken the epoch.
refused(st, merged) == st

\* Eternity::insert_epoch_or_root
insert_epoch_or_root(st, epoch) ==
    LET this_epoch == Len(st.inner)
        slot == IF epoch.tag = "Hash" THEN HashTier(epoch.hash) ELSE KeepTier(epoch.val.inner)
        epoch_index == IF epoch.tag = "Hash" THEN EmptyIndex ELSE epoch.val.index
        r == tier_insert(st.inner, slot)
        merged == [c \in DOMAIN st.index \cup DOMAIN epoch_index |->
                      IF c \in DOMAIN epoch_index
                      THEN Position(this_epoch, epoch_index[c].block, epoch_index[c].item)
                      ELSE st.index[c]]
    IN  IF ~r.ok
        THEN [ok |-> FALSE, err |-> "Full", st |-> refused(st, merged), asserted |-> TRUE,
              rejected |-> rejected_epoch(r.back, epoch_index)]
        ELSE LET replaced == {st.index[c] : c \in DOMAIN st.index \cap DOMAIN epoch_index}
                 f == forget_replaced_by_epoch(r.t, replaced)
             IN  [ok |-> TRUE, err |-> "", st |-> Eternity(merged, f.inner, Dirty),
                  asserted |-> TRUE, rejected |-> epoch]

\* Mutant: the epoch's tree is attached and its index is not merged.
insert_epoch_drops_index(st, epoch) ==
    ReturnedEpoch(insert_epoch_or_root(st, KeepEpoch([index |-> EmptyIndex, inner |-> epoch.inner])))

\* Eternity::insert_epoch: the error is InsertEpochError(epoch).
insert_epoch(st, epoch) ==
    ReturnedEpoch(insert_epoch_or_root(st, KeepEpoch(epoch)))

\* Eternity::insert_epoch_root: the error is the unit InsertEpochRootError.
insert_epoch_root(st, epoch_root_hash) ==
    Returned(insert_epoch_or_root(st, HashEpoch(epoch_root_hash)), BackUnit)

\* Mutant: the number of epochs, not the index of the last one.
this_epoch_is_len(t) == Len(t)

\* Mutant: the index of the epoch before the most recent one.
this_epoch_is_previous(t) == IF Len(t) <= 1 THEN 0 ELSE Len(t) - 2

\* Mutant: the position is left at the granularity of the epoch, with no
\* epoch prefix composed.
this_epoch_is_local(t) == 0

\* The index of the most recent epoch, as Eternity::update computes it.
this_epoch_of(t) == IF Len(t) = 0 THEN 0 ELSE Len(t) - 1

\* Mutant: the most recent epoch is handed over only if it is kept and its
\* most recent block is kept and holds a leaf.
update_needs_leaf(st) ==
    LET n == Len(st.inner)
        et == st.inner[n].val
    IN  IF /\ n > 0 /\ st.inner[n].tag = "Keep"
           /\ Len(et) > 0 /\ et[Len(et)].tag = "Keep" /\ Len(et[Len(et)].val) > 0
        THEN [some |-> TRUE, this_epoch |-> this_epoch_of(st.inner), et |-> st.inner[n].val]
        ELSE [some |-> FALSE, this_epoch |-> this_epoch_of(st.inner), et |-> <<>>]

\* Eternity::update: the most recent epoch as an EpochMut, if it is kept.
update(st) ==
    LET n == Len(st.inner)
    IN  IF n > 0 /\ st.inner[n].tag = "Keep"
        THEN [some |-> TRUE, this_epoch |-> this_epoch_of(st.inner), et |-> st.inner[n].val]
        ELSE [some |-> FALSE, this_epoch |-> this_epoch_of(st.inner), et |-> <<>>]

\* Mutant: the memoized root survives a change of the most recent epoch.
updated_keeps_cache(st, et, idx) ==
    Eternity(idx, [st.inner EXCEPT ![Len(st.inner)].val = et], st.cache)

\* What Eternity::update leaves behind when its closure has run on the epoch.
updated(st, et, idx) ==
    LET n == Len(st.inner)
    IN  Eternity(idx, [st.inner EXCEPT ![n].val = et],
                 IF et = st.inner[n].val THEN st.cache ELSE Dirty)

\* Mutant: an epoch is opened also behind a summary-only epoch.
opened_behind_summary(st) ==
    IF is_empty(st) \/ st.inner[Len(st.inner)].tag = "Hash" THEN insert_epoch(st, EpochNew)
    ELSE [ok |-> TRUE, err |-> "", st |-> st, asserted |-> TRUE, back |-> NoBack]

\* Mutant: no epoch is opened on an empty eternity.
opened_nothing(st) ==
    [ok |-> TRUE, err |-> "", st |-> st, asserted |-> TRUE, back |-> NoBack]

\* Mutant: an epoch is opened also behind an epoch that holds all its blocks.
opened_behind_full(st) ==
    IF is_empty(st) \/ (st.inner[Len(st.inner)].tag = "Keep"
                           /\ Len(st.inner[Len(st.inner)].val) = Cap)
    THEN insert_epoch(st, EpochNew)
    ELSE [ok |-> TRUE, err |-> "", st |-> st, asserted |-> TRUE, back |-> NoBack]

\* The epoch opened first when the eternity is empty.
opened(st) ==
    IF is_empty(st) THEN insert_epoch(st, EpochNew)
    ELSE [ok |-> TRUE, err |-> "", st |-> st, asserted |-> TRUE, back |-> NoBack]

\* Mutant: the replaced index of an inserted item is left as it was.
forget_replaced_skipped(t, replaced) == [inner |-> t, forgotten |-> TRUE]

\* The replaced index of an inserted item is forgotten.
forget_replaced(t, replaced) == ForgetAll(t, replaced)

\* Eternity::insert_commitment_or_root
insert_commitment_or_root(st, item) ==
    IF is_empty(st) /\ ~opened(st).ok
    THEN [ok |-> FALSE, err |-> "Full", st |-> st, asserted |-> TRUE]
    ELSE LET st1 == opened(st).st
             u == update(st1)
         IN  IF ~u.some
             THEN [ok |-> FALSE, err |-> "EpochForgotten", st |-> st1, asserted |-> TRUE]
             ELSE LET r == epoch_mut_insert(u.et, st1.index, u.this_epoch, item)
                      st2 == updated(st1, r.et, r.index)
                  IN  IF ~r.ok
                      THEN [ok |-> FALSE,
                            err |-> IF r.err = "Full" THEN "EpochFull" ELSE r.err,
                            st |-> st2, asserted |-> TRUE]
                      ELSE LET f == forget_replaced(st2.inner, r.replaced)
                           IN  [ok |-> TRUE, err |-> "",
                                st |-> Eternity(st2.index, f.inner, st2.cache),
                                asserted |-> f.forgotten]

\* Mutant: the Witness mode is ignored and every commitment kept.
insert_item_always_keeps(w, commitment) == KeepItem(commitment)

\* Mutant: a discarded commitment is stored as a digest that is not its hash.
insert_item_unhashed(w, commitment) ==
    IF w = "Keep" THEN KeepItem(commitment) ELSE HashItem(OpaqueHash(commitment))

\* The Insert<Commitment> that Eternity::insert builds from its Witness mode.
insert_item(w, commitment) ==
    IF w = "Keep" THEN KeepItem(commitment) ELSE HashItem(HashOf(commitment))

\* Mutant: a discarded commitment evicts the position it was kept at before.
insert_discard_evicts(st, w, commitment) ==
    Returned(insert_commitment_or_root(IF w = "Forget" THEN forget(st, commitment).st ELSE st,
                                       insert_item(w, commitment)),
             BackCommitment(commitment))

\* Eternity::insert: whatever the error, the caller gets Err(commitment).
insert(st, w, commitment) ==
    Returned(insert_commitment_or_root(st, insert_item(w, commitment)),
             BackCommitment(commitment))

\* Mutant: the replaced indices of an inserted block are left as they were.
forget_replaced_by_block_skipped(t, replaced) == [inner |-> t, forgotten |-> TRUE]

\* The replaced indices of an inserted block are forgotten.
forget_replaced_by_block(t, replaced) == ForgetAll(t, replaced)

\* The body shared by Eternity::insert_block and Eternity::insert_block_root.
insert_block_or_root(st, block) ==
    IF is_empty(st) /\ ~opened(st).ok
    THEN [ok |-> FALSE, err |-> "Full", st |-> st, asserted |-> TRUE, rejected |-> block]
    ELSE LET st1 == opened(st).st
             u == update(st1)
         IN  IF ~u.some
             THEN [ok |-> FALSE, err |-> "EpochForgotten", st |-> st1, asserted |-> TRUE,
                   rejected |-> block]
             ELSE LET r == epoch_mut_insert_block_or_root(u.et, st1.index, u.this_epoch, block)
                      st2 == updated(st1, r.et, r.index)
                  IN  IF ~r.ok
                      THEN [ok |-> FALSE, err |-> "EpochFull", st |-> st2, asserted |-> TRUE,
                            rejected |-> r.back]
                      ELSE LET f == forget_replaced_by_block(st2.inner, r.replaced)
                           IN  [ok |-> TRUE, err |-> "",
                                st |-> Eternity(st2.index, f.inner, st2.cache),
                                asserted |-> f.forgotten, rejected |-> block]

\* Mutant: the error carries a fresh block in place of the one refused.
insert_block_returns_new(st, block) ==
    Returned(insert_block_or_root(st, KeepBlock(block)), BackBlock(BlockNew))

\* Eternity::insert_block: every InsertBlockError carries the block.
insert_block(st, block) ==
    ReturnedBlock(insert_block_or_root(st, KeepBlock(block)))

\* Mutant: attaching the root closes the index as well: its entries are dropped.
insert_block_root_drops_index(st, block_root_hash) ==
    Returned(insert_block_or_root(Eternity(EmptyIndex, st.inner, st.cache),
                                  HashBlock(block_root_hash)), BackUnit)

\* Eternity::insert_block_root: no InsertBlockRootError carries anything.
insert_block_root(st, block_root_hash) ==
    Returned(insert_block_or_root(st, HashBlock(block_root_hash)), BackUnit)

-----------------------------------------------------------------------------
(* Eternity::len, in the widths of the code: values are little-endian      *)
(* sequences of 16-bit limbs.                                              *)

U16Max == 65535
Limb == U16Max + 1

\* `x as u32` of a u16
U32OfU16(x) == <<x % Limb, 0>>
\* u32::MAX
U32Max == <<U16Max, U16Max>>
\* `x << 16` in u32: the upper limb is shifted out.
U32Shl16(x) == <<0, x[1]>>
\* `x as u64` of a u32
U64OfU32(x) == <<x[1], x[2], 0, 0>>
\* `(n as u64) << 32`
U64Shl32OfLen(n) == <<0, 0, n % Limb, (n \div Limb) % Limb>>

\* u64 addition, limb by limb with carry.
U64Add(a, b) ==
    LET s1 == a[1] + b[1]
        s2 == a[2] + b[2] + (s1 \div Limb)
        s3 == a[3] + b[3] + (s2 \div Limb)
        s4 == a[4] + b[4] + (s3 \div Limb)
    IN  <<s1 % Limb, s2 % Limb, s3 % Limb, s4 % Limb>>

\* A small natural number as a u64.
U64(n) == <<n % Limb, (n \div Limb) % Limb, 0, 0>>

\* a <= b on u64 values
U64Leq(a, b) ==
    \/ a = b
    \/ \E k \in 1..4 : a[k] < b[k] /\ \A j \in (k + 1)..4 : a[j] = b[j]

\* focus(): the most recently inserted slot of a tier, if any.
focus(t) == IF Len(t) = 0 THEN [some |-> FALSE, slot |-> HashTier(NoHash)]
            ELSE [some |-> TRUE, slot |-> t[Len(t)]]

\* Eternity::len, of inner.len() and inner.focus()
len_of(epochs, fe) ==
    LET m == IF ~fe.some THEN U32OfU16(0)
             ELSE IF fe.slot.tag = "Hash" THEN U32Max
             ELSE LET fb == focus(fe.slot.val)
                  IN  U32OfU16(IF ~fb.some THEN 0
                               ELSE IF fb.slot.tag = "Hash" THEN U16Max
                               ELSE Len(fb.slot.val))
    IN  U64Add(U64Shl32OfLen(epochs), U64OfU32(U32Shl16(m)))

\* Eternity::len
len(st) == len_of(Len(st.inner), focus(st.inner))

\* inner.len() and inner.focus() of an eternity
ShapeOf(st) == [epochs |-> Len(st.inner), focus |-> focus(st.inner)]

-----------------------------------------------------------------------------
(* The validator store of the stake component                               *)
(* (src/crates/core/component/stake/src/component/validator_handler/       *)
(* validator_store.rs); epochs are u64 values                              *)

\* u64::MAX
U64MaxValue == <<U16Max, U16Max, U16Max, U16Max>>

\* u64::saturating_add
U64SaturatingAdd(a, b) ==
    LET s1 == a[1] + b[1]
        s2 == a[2] + b[2] + (s1 \div Limb)
        s3 == a[3] + b[3] + (s2 \div Limb)
        s4 == a[4] + b[4] + (s3 \div Limb)
    IN  IF s4 \div Limb > 0 THEN U64MaxValue
        ELSE <<s1 % Limb, s2 % Limb, s3 % Limb, s4 % Limb>>

\* Ord::min on u64 values
U64Min(a, b) == IF U64Leq(a, b) THEN a ELSE b

\* validator::BondingState
Bonded == [kind |-> "Bonded", unbonds_at_epoch |-> U64(0)]
Unbonded == [kind |-> "Unbonded", unbonds_at_epoch |-> U64(0)]
Unbonding(e) == [kind |-> "Unbonding", unbonds_at_epoch |-> e]
\* No bonding state is stored under the key.
NoBondingState == [kind |-> "None", unbonds_at_epoch |-> U64(0)]

IdentityKeys == {"v1", "v2"}

\* An Amount is a u128: a little-endian sequence of eight 16-bit limbs.
U128(n) == <<n % Limb, (n \div Limb) % Limb, 0, 0, 0, 0, 0, 0>>

\* a <= b on u128 values
U128Leq(a, b) ==
    \/ a = b
    \/ \E k \in 1..8 : a[k] < b[k] /\ \A j \in (k + 1)..8 : a[j] = b[j]

\* The largest voting power a validator may hold, 2^60 - 1; the constant is
\* declared by the stake component and imported at validator_store.rs:2.
MAX_VOTING_POWER == <<U16Max, U16Max, U16Max, 4095, 0, 0, 0, 0>>

\* The voting powers callers pass: the smallest ones, the ones up to the
\* maximum, the ones just above it, 2^64 (above the maximum in the upper
\* half of the u128 only) and u128::MAX.
VotingPowers ==
    {U128(n) : n \in 0..PowerNear}
        \cup {[MAX_VOTING_POWER EXCEPT ![1] = @ - n] : n \in 0..PowerNear}
        \cup {<<n, 0, 0, MAX_VOTING_POWER[4] + 1, 0, 0, 0, 0>> : n \in 0..PowerNear}
        \cup {<<0, 0, 0, 0, 1, 0, 0, 0>>}
        \cup {<<U16Max, U16Max, U16Max, U16Max, U16Max, U16Max, U16Max, U16Max>>}

\* No voting power is stored under the key.
NoPower == [some |-> FALSE, value |-> U128(0)]

\* validator::State
ValidatorStates == {"Defined", "Disabled", "Inactive", "Active", "Jailed", "Tombstoned"}
\* No validator state is stored under the key.
NoValidatorState == "None"

\* The epoch numbers in use: the first ones and the last ones of u64.
StakeEpochs ==
    {U64(n) : n \in 0..EpochNear}
        \cup {<<U16Max - n, U16Max, U16Max, U16Max>> : n \in 0..EpochNear}

BondingStates == {Bonded, Unbonded} \cup {Unbonding(e) : e \in StakeEpochs}

\* A store that tracks no validator.
StoreNew ==
    [bonding_state |-> [id \in IdentityKeys |-> NoBondingState], unbonding_epochs |-> U64(0),
     power |-> [id \in IdentityKeys |-> NoPower],
     state |-> [id \in IdentityKeys |-> NoValidatorState]]

NoReply ==
    [op |-> "", id |-> "", starting_epoch |-> U64(0), ok |-> TRUE, epoch |-> U64(0),
     voting_power |-> U128(0), initial_state |-> NoValidatorState]

\* ValidatorDataRead::get_validator_bonding_state
get_validator_bonding_state(st, id) == st.bonding_state[id]

\* ValidatorDataRead::compute_unbonding_epoch
compute_unbonding_epoch(st, id, starting_epoch) ==
    LET val_bonding_state == get_validator_bonding_state(st, id)
        min_epoch_delay == st.unbonding_epochs
        upper_bound_epoch == U64SaturatingAdd(starting_epoch, min_epoch_delay)
    IN  IF val_bonding_state.kind = "None"
        THEN [ok |-> FALSE, epoch |-> U64(0)]
        ELSE [ok |-> TRUE,
              epoch |-> CASE val_bonding_state.kind = "Bonded" -> upper_bound_epoch
                          [] val_bonding_state.kind = "Unbonding" ->
                                U64Min(val_bonding_state.unbonds_at_epoch, upper_bound_epoch)
                          [] val_bonding_state.kind = "Unbonded" -> starting_epoch]

\* Mutant: the power is written before it is checked against the maximum.
set_validator_power_writes_first(st, identity_key, voting_power) ==
    [ok |-> U128Leq(voting_power, MAX_VOTING_POWER),
     st |-> [st EXCEPT !.power[identity_key] = [some |-> TRUE, value |-> voting_power]]]

\* ValidatorDataWrite::set_validator_power
set_validator_power(st, identity_key, voting_power) ==
    IF ~U128Leq(voting_power, MAX_VOTING_POWER)
    THEN [ok |-> FALSE, st |-> st]
    ELSE [ok |-> TRUE,
          st |-> [st EXCEPT !.power[identity_key] = [some |-> TRUE, value |-> voting_power]]]

\* Mutant: Inactive is accepted as an initial state as well.
set_initial_validator_state_takes_inactive(st, id, initial_state) ==
    IF initial_state \notin {"Active", "Defined", "Inactive"}
    THEN [ok |-> FALSE, st |-> st]
    ELSE [ok |-> TRUE, st |-> [st EXCEPT !.state[id] = initial_state]]

\* ValidatorDataWrite::set_initial_validator_state
set_initial_validator_state(st, id, initial_state) ==
    IF initial_state \notin {"Active", "Defined"}
    THEN [ok |-> FALSE, st |-> st]
    ELSE [ok |-> TRUE, st |-> [st EXCEPT !.state[id] = initial_state]]

-----------------------------------------------------------------------------
(* What callers pass in *)

Witnesses == {"Keep", "Forget"}

\* The item sequences callers build blocks from: the empty block, one kept
\* or discarded item, and the same commitment kept twice.
InputBlockSeqs ==
    {<<>>}
        \cup {<<KeepItem(c)>> : c \in Commitments}
        \cup {<<HashItem(HashOf(1))>>}
        \cup {<<KeepItem(1), KeepItem(1)>>}

InputBlocks == {BlockOf(s) : s \in InputBlockSeqs}

InputBlockRoots == {block_root(BlockOf(<<KeepItem(1)>>)), OpaqueHash(1)}

\* The block sequences callers build epochs from: the empty epoch, one block
\* keeping a commitment, one block root, and two blocks keeping the same
\* commitment.
InputEpochSeqs ==
    {<<>>}
        \cup {<<KeepBlock(BlockOf(<<KeepItem(c)>>))>> : c \in Commitments}
        \cup {<<HashBlock(block_root(BlockOf(<<KeepItem(1)>>)))>>}
        \cup {<<KeepBlock(BlockOf(<<KeepItem(1)>>)), KeepBlock(BlockOf(<<KeepItem(1)>>))>>}

InputEpochs == {EpochOf(s) : s \in InputEpochSeqs}

InputEpochRoots ==
    {epoch_root(EpochOf(<<KeepBlock(BlockOf(<<KeepItem(1)>>))>>)), OpaqueHash(2)}

-----------------------------------------------------------------------------
(* The state machine: one action per public operation *)

St == Eternity(index, inner, cache)

Ret(op, ok, err, w, c, ks, h, asserted) ==
    [op |-> op, ok |-> ok, err |-> err, w |-> w, c |-> c, ks |-> ks, h |-> h,
     asserted |-> asserted, arg |-> NoBack, back |-> NoBack, n |-> U64(0)]

\* The last call with the value passed in and the value its error carried.
RetOf(op, r, w, c, ks, h, arg) ==
    [Ret(op, r.ok, r.err, w, c, ks, h, r.asserted) EXCEPT !.arg = arg, !.back = r.back]

InsertOps == {"insert", "insert_block", "insert_block_root", "insert_epoch",
              "insert_epoch_root"}

\* An insert_epoch or insert_epoch_root call has been refused.
EpochRefused ==
    \E op \in {"insert_epoch", "insert_epoch_root"} : <<op, "Full">> \in errs

\* The history of failures, kept up with the call just returned.
Track ==
    /\ errs' = IF ret'.op \in InsertOps /\ ~ret'.ok
               THEN errs \cup {<<ret'.op, ret'.err>>} ELSE errs
    /\ since_full' = IF EpochRefused /\ ret'.ok
                     THEN since_full \cup {ret'.op} ELSE since_full

Init ==
    /\ index = EternityNew.index
    /\ inner = EternityNew.inner
    /\ cache = EternityNew.cache
    /\ ret = Ret("new", TRUE, "", "", 0, {}, NoHash, TRUE)
    /\ steps = 0
    /\ seen = {}
    /\ before = [c \in Commitments |-> {}]
    /\ kept = {}
    /\ other = EternityNew
    /\ agree = TRUE
    /\ errs = {}
    /\ since_full = {}
    /\ shape = ShapeOf(EternityNew)
    /\ readers = [r \in Readers |-> Idle]
    /\ store = StoreNew
    /\ reply = NoReply

\* A mutating call that leaves the eternity as `st`, having kept `ks` anew.
Mutate(st, ks) ==
    /\ steps < MaxOps
    /\ steps' = steps + 1
    /\ index' = st.index
    /\ inner' = st.inner
    /\ cache' = st.cache
    /\ seen' = seen \cup {root(St)}
    /\ before' = [c \in Commitments |-> IF c \in ks THEN seen \cup {root(St)} ELSE before[c]]
    /\ kept' = kept \cup ks
    /\ UNCHANGED <<other, agree, shape, readers, store, reply>>

Insert(w, c) ==
    LET r == insert(St, w, c)
    IN  /\ Mutate(r.st, IF r.ok /\ w = "Keep" THEN {c} ELSE {})
        /\ ret' = RetOf("insert", r, w, c, {}, NoHash, BackCommitment(c))
        /\ Track

Forget(c) ==
    LET r == forget(St, c)
    IN  /\ Mutate(r.st, {})
        /\ ret' = Ret("forget", r.forgotten, "", "", c, {}, NoHash, r.asserted)
        /\ Track

InsertBlock(b) ==
    LET r == insert_block(St, b)
    IN  /\ Mutate(r.st, IF r.ok THEN DOMAIN b.index ELSE {})
        /\ ret' = RetOf("insert_block", r, "Keep", 0, DOMAIN b.index, NoHash, BackBlock(b))
        /\ Track

InsertBlockRoot(h) ==
    LET r == insert_block_root(St, h)
    IN  /\ Mutate(r.st, {})
        /\ ret' = RetOf("insert_block_root", r, "Forget", 0, {}, h, BackHash(h))
        /\ Track

InsertEpoch(e) ==
    LET r == insert_epoch(St, e)
    IN  /\ Mutate(r.st, IF r.ok THEN DOMAIN e.index ELSE {})
        /\ ret' = RetOf("insert_epoch", r, "Keep", 0, DOMAIN e.index, NoHash, BackEpoch(e))
        /\ Track

InsertEpochRoot(h) ==
    LET r == insert_epoch_root(St, h)
    IN  /\ Mutate(r.st, {})
        /\ ret' = RetOf("insert_epoch_root", r, "Forget", 0, {}, h, BackHash(h))
        /\ Track

\* root(): returns the memoized hash and leaves it memoized.
Root ==
    /\ steps < MaxOps
    /\ steps' = steps + 1
    /\ cache' = Cached(root(St))
    /\ ret' = Ret("root", TRUE, "", "", 0, {}, root(St), TRUE)
    /\ Track
    /\ UNCHANGED <<index, inner, seen, before, kept, other, agree, shape, readers,
                   store, reply>>

\* witness(c): computing the path may or may not leave the root memoized.
Witness(c) ==
    /\ steps < MaxOps
    /\ steps' = steps + 1
    /\ cache' \in {cache, Cached(root(St))}
    /\ ret' = Ret("witness", witness(St, c).some, "", "", c, {}, NoHash,
                  witness_asserted(St, c))
    /\ Track
    /\ UNCHANGED <<index, inner, seen, before, kept, other, agree, shape, readers,
                   store, reply>>

Next ==
    \/ \E w \in Witnesses, c \in Commitments : Insert(w, c)
    \/ \E c \in Commitments : Forget(c)
    \/ \E b \in InputBlocks : InsertBlock(b)
    \/ \E h \in InputBlockRoots : InsertBlockRoot(h)
    \/ \E e \in InputEpochs : InsertEpoch(e)
    \/ \E h \in InputEpochRoots : InsertEpochRoot(h)
    \/ Root
    \/ \E c \in Commitments : Witness(c)

Spec == Init /\ [][Next]_vars

-----------------------------------------------------------------------------
(* The same calls on an eternity that already holds Cap epochs *)

RECURSIVE Filled(_)
\* The eternity after an insert_epoch or insert_epoch_root call for each
\* element of `es`, in order.
Filled(es) ==
    IF es = <<>> THEN EternityNew
    ELSE insert_epoch_or_root(Filled(SubSeq(es, 1, Len(es) - 1)), es[Len(es)]).st

\* What the earlier epochs were inserted as.
EarlierEpochs == {KeepEpoch(EpochOf(<<KeepBlock(BlockOf(<<KeepItem(1)>>))>>))}

\* What the most recent epoch was inserted as: an empty epoch, an epoch of
\* one block, a full epoch, and the root of an epoch.
LatestEpochs ==
    {KeepEpoch(EpochNew),
     KeepEpoch(EpochOf(<<KeepBlock(BlockOf(<<KeepItem(1)>>))>>)),
     KeepEpoch(EpochOf([i \in 1..Cap |-> KeepBlock(BlockOf(<<KeepItem(1)>>))])),
     HashEpoch(OpaqueHash(2))}

FullInputs ==
    {Filled([i \in 1..Cap |-> IF i < Cap THEN first ELSE last]) :
        first \in EarlierEpochs, last \in LatestEpochs}

\* The histories start at this state.
InitFull ==
    /\ \E st \in FullInputs :
          /\ index = st.index
          /\ inner = st.inner
          /\ cache = st.cache
          /\ kept = DOMAIN st.index
    /\ ret = Ret("new", TRUE, "", "", 0, {}, NoHash, TRUE)
    /\ steps = 0
    /\ seen = {}
    /\ before = [c \in Commitments |-> {}]
    /\ other = EternityNew
    /\ agree = TRUE
    /\ errs = {}
    /\ since_full = {}
    /\ shape = ShapeOf(EternityNew)
    /\ readers = [r \in Readers |-> Idle]
    /\ store = StoreNew
    /\ reply = NoReply

\* The calls that change an eternity.
NextFull ==
    \/ \E w \in Witnesses, c \in Commitments : Insert(w, c)
    \/ \E c \in Commitments : Forget(c)
    \/ \E b \in InputBlocks : InsertBlock(b)
    \/ \E h \in InputBlockRoots : InsertBlockRoot(h)
    \/ \E e \in InputEpochs : InsertEpoch(e)
    \/ \E h \in InputEpochRoots : InsertEpochRoot(h)

SpecFull == InitFull /\ [][NextFull]_vars

-----------------------------------------------------------------------------
(* Two eternities given the same insertions, each at its own retention *)

\* The retention of a call on the first and on the second eternity.
Retentions == {<<"Keep", "Keep">>, <<"Forget", "Forget">>, <<"Keep", "Forget">>}

PairBlocks == {BlockNew, BlockOf(<<KeepItem(1)>>), BlockOf(<<KeepItem(1), KeepItem(1)>>)}

PairEpochs == {EpochNew, EpochOf(<<KeepBlock(BlockOf(<<KeepItem(1)>>))>>)}

\* insert_block(b) when kept, insert_block_root(b.root()) when not.
block_call(st, w, b) ==
    IF w = "Keep" THEN insert_block(st, b) ELSE insert_block_root(st, block_root(b))

\* insert_epoch(e) when kept, insert_epoch_root(e.root()) when not.
epoch_call(st, w, e) ==
    IF w = "Keep" THEN insert_epoch(st, e) ELSE insert_epoch_root(st, epoch_root(e))

Both(r1, r2, op, ws, c, ks) ==
    /\ steps < MaxOps
    /\ steps' = steps + 1
    /\ index' = r1.st.index
    /\ inner' = r1.st.inner
    /\ cache' = r1.st.cache
    /\ other' = r2.st
    /\ agree' = (agree /\ r1.ok /\ r2.ok)
    /\ ret' = Ret(op, r1.ok, r1.err, ws[1], c, ks, NoHash, r1.asserted)
    /\ Track
    /\ UNCHANGED <<seen, before, kept, shape, readers, store, reply>>

PairInsert(ws, c) ==
    Both(insert(St, ws[1], c), insert(other, ws[2], c), "insert", ws, c, {})

PairInsertBlock(ws, b) ==
    Both(block_call(St, ws[1], b), block_call(other, ws[2], b), "insert_block", ws, 0,
         DOMAIN b.index)

PairInsertEpoch(ws, e) ==
    Both(epoch_call(St, ws[1], e), epoch_call(other, ws[2], e), "insert_epoch", ws, 0,
         DOMAIN e.index)

NextPair ==
    \/ \E ws \in Retentions, c \in Commitments : PairInsert(ws, c)
    \/ \E ws \in Retentions, b \in PairBlocks : PairInsertBlock(ws, b)
    \/ \E ws \in Retentions, e \in PairEpochs : PairInsertEpoch(ws, e)

SpecPair == Init /\ [][NextPair]_vars

-----------------------------------------------------------------------------
(* len() on eternities of the program's own capacity: what len() reads of   *)
(* an eternity is the number of its epochs and its most recent epoch.      *)

\* The number of epochs an Eternity witnesses, and of slots of every Tier.
TierCapacity == 65536

\* 65,536 x 65,536 x 65,536 = 2^48 as a u64
MaxLen == <<0, 0, 0, 1>>

\* Tier::insert as inner.len() and inner.focus() show it.
shape_insert(sh, slot) ==
    IF sh.epochs >= TierCapacity
    THEN [ok |-> FALSE, shape |-> sh]
    ELSE [ok |-> TRUE,
          shape |-> [epochs |-> sh.epochs + 1, focus |-> [some |-> TRUE, slot |-> slot]]]

LenCounts == (1..LenNear) \cup ((TierCapacity - LenNear + 1)..TierCapacity)

\* The most recent epoch as insert_epoch or insert_epoch_root left it.
LenSlots ==
    {KeepTier(e.inner) : e \in InputEpochs} \cup {HashTier(h) : h \in InputEpochRoots}

\* The eternities len() is read on: the empty one, and those n
\* insert_epoch or insert_epoch_root calls lead to.
LenInputs ==
    {ShapeOf(EternityNew)}
        \cup {[epochs |-> n, focus |-> [some |-> TRUE, slot |-> slot]] :
                 n \in LenCounts, slot \in LenSlots}

InitLen ==
    /\ shape \in LenInputs
    /\ index = EternityNew.index
    /\ inner = EternityNew.inner
    /\ cache = EternityNew.cache
    /\ ret = Ret("new", TRUE, "", "", 0, {}, NoHash, TRUE)
    /\ steps = 0
    /\ seen = {}
    /\ before = [c \in Commitments |-> {}]
    /\ kept = {}
    /\ other = EternityNew
    /\ agree = TRUE
    /\ errs = {}
    /\ since_full = {}
    /\ readers = [r \in Readers |-> Idle]
    /\ store = StoreNew
    /\ reply = NoReply

\* One more insert_epoch or insert_epoch_root call, as len() will see it.
LenInsertEpoch(slot) ==
    LET r == shape_insert(shape, slot)
    IN  /\ steps < MaxOps
        /\ steps' = steps + 1
        /\ shape' = r.shape
        /\ ret' = Ret(IF slot.tag = "Keep" THEN "insert_epoch" ELSE "insert_epoch_root",
                      r.ok, IF r.ok THEN "" ELSE "Full", slot.tag, 0, {}, slot.hash, TRUE)
        /\ UNCHANGED <<index, inner, cache, seen, before, kept, other, agree, errs,
                       since_full, readers, store, reply>>

\* len()
ReadLen ==
    /\ steps < MaxOps
    /\ steps' = steps + 1
    /\ ret' = [Ret("len", TRUE, "", "", 0, {}, NoHash, TRUE)
                  EXCEPT !.n = len_of(shape.epochs, shape.focus)]
    /\ UNCHANGED <<index, inner, cache, seen, before, kept, other, agree, errs,
                   since_full, shape, readers, store, reply>>

NextLen ==
    \/ \E slot \in LenSlots : LenInsertEpoch(slot)
    \/ ReadLen

SpecLen == InitLen /\ [][NextLen]_vars

-----------------------------------------------------------------------------
(* The same calls on an eternity whose most recent block or epoch is closed *)

\* A block that holds Cap leaves.
FullBlock == BlockOf([i \in 1..Cap |-> KeepItem(1)])

\* The first epoch as it was inserted: one full block, one summary block,
\* Cap full blocks, and the root of an epoch.
ClosedEpochs ==
    {KeepEpoch(EpochOf(<<KeepBlock(FullBlock)>>)),
     KeepEpoch(EpochOf(<<HashBlock(OpaqueHash(1))>>)),
     KeepEpoch(EpochOf([i \in 1..Cap |-> KeepBlock(FullBlock)])),
     HashEpoch(OpaqueHash(2))}

ClosedInputs == {insert_epoch_or_root(EternityNew, e).st : e \in ClosedEpochs}

\* The histories start at this state.
InitClosed ==
    /\ \E st \in ClosedInputs :
          /\ index = st.index
          /\ inner = st.inner
          /\ cache = st.cache
          /\ kept = DOMAIN st.index
    /\ ret = Ret("new", TRUE, "", "", 0, {}, NoHash, TRUE)
    /\ steps = 0
    /\ seen = {}
    /\ before = [c \in Commitments |-> {}]
    /\ other = EternityNew
    /\ agree = TRUE
    /\ errs = {}
    /\ since_full = {}
    /\ shape = ShapeOf(EternityNew)
    /\ readers = [r \in Readers |-> Idle]
    /\ store = StoreNew
    /\ reply = NoReply

SpecClosed == InitClosed /\ [][NextFull]_vars

-----------------------------------------------------------------------------
(* Readers with shared access to one eternity that no call is changing *)

\* The eternities readers find: the empty one, one with a single kept leaf,
\* and those holding Cap epochs.
ReaderInputs == {EternityNew, insert(EternityNew, "Keep", 1).st} \cup FullInputs

\* The root is memoized if a root() call came after the last change.
InitReaders ==
    /\ \E st \in ReaderInputs :
          /\ index = st.index
          /\ inner = st.inner
          /\ cache \in {Dirty, Cached(tier_hash(st.inner))}
          /\ kept = DOMAIN st.index
    /\ ret = Ret("new", TRUE, "", "", 0, {}, NoHash, TRUE)
    /\ steps = 0
    /\ seen = {}
    /\ before = [c \in Commitments |-> {}]
    /\ other = EternityNew
    /\ agree = TRUE
    /\ errs = {}
    /\ since_full = {}
    /\ shape = ShapeOf(EternityNew)
    /\ readers = [r \in Readers |-> Idle]
    /\ store = StoreNew
    /\ reply = NoReply

ReaderFrame ==
    UNCHANGED <<index, inner, ret, steps, seen, before, kept, other, agree, errs,
                since_full, shape, store, reply>>

\* A reader enters root() or witness(c) and reads the memoized hash: on a
\* hit it has its value, on a miss it recombines the hashes by itself.
ReaderLoad(r, op, c) ==
    /\ readers[r].pc = "idle"
    /\ readers' = [readers EXCEPT ![r] =
                      [pc |-> IF hash_load(inner, cache).hit THEN "done" ELSE "computed",
                       op |-> op, c |-> c, h |-> hash_load(inner, cache).h,
                       wrote |-> FALSE]]
    /\ cache' = cache
    /\ ReaderFrame

\* A reader memoizes the hash it recombined, whatever is memoized by now.
ReaderStore(r) ==
    /\ readers[r].pc = "computed"
    /\ cache' = hash_store(cache, readers[r].h)
    /\ readers' = [readers EXCEPT ![r].pc = "done", ![r].wrote = TRUE]
    /\ ReaderFrame

\* witness(c) may return without memoizing the root.
ReaderSkip(r) ==
    /\ readers[r].pc = "computed"
    /\ readers[r].op = "witness"
    /\ cache' = cache
    /\ readers' = [readers EXCEPT ![r].pc = "done"]
    /\ ReaderFrame

\* The call returns to its caller.
ReaderReturn(r) ==
    /\ readers[r].pc = "done"
    /\ readers' = [readers EXCEPT ![r] = Idle]
    /\ cache' = cache
    /\ ReaderFrame

NextReaders ==
    \/ \E r \in Readers : ReaderLoad(r, "root", 0)
    \/ \E r \in Readers, c \in Commitments : ReaderLoad(r, "witness", c)
    \/ \E r \in Readers : ReaderStore(r)
    \/ \E r \in Readers : ReaderSkip(r)
    \/ \E r \in Readers : ReaderReturn(r)

SpecReaders == InitReaders /\ [][NextReaders]_vars

-----------------------------------------------------------------------------
(* Calls on a validator store *)

\* The stores calls are made on: each validator untracked or in some
\* bonding state, and some unbonding delay as the stake parameter.
InitStake ==
    /\ store \in [bonding_state : [IdentityKeys -> BondingStates \cup {NoBondingState}],
                   unbonding_epochs : StakeEpochs,
                   power : {StoreNew.power},
                   state : {StoreNew.state}]
    /\ reply = NoReply
    /\ index = EternityNew.index
    /\ inner = EternityNew.inner
    /\ cache = EternityNew.cache
    /\ ret = Ret("new", TRUE, "", "", 0, {}, NoHash, TRUE)
    /\ steps = 0
    /\ seen = {}
    /\ before = [c \in Commitments |-> {}]
    /\ kept = {}
    /\ other = EternityNew
    /\ agree = TRUE
    /\ errs = {}
    /\ since_full = {}
    /\ shape = ShapeOf(EternityNew)
    /\ readers = [r \in Readers |-> Idle]

ComputeUnbondingEpoch(id, starting_epoch) ==
    /\ reply' = [NoReply EXCEPT !.op = "compute_unbonding_epoch", !.id = id,
                  !.starting_epoch = starting_epoch,
                  !.ok = compute_unbonding_epoch(store, id, starting_epoch).ok,
                  !.epoch = compute_unbonding_epoch(store, id, starting_epoch).epoch]
    /\ UNCHANGED <<index, inner, cache, ret, steps, seen, before, kept, other, agree, errs,
                   since_full, shape, readers, store>>

NextStake ==
    \E id \in IdentityKeys, starting_epoch \in StakeEpochs :
        ComputeUnbondingEpoch(id, starting_epoch)

SpecStake == InitStake /\ [][NextStake]_vars

-----------------------------------------------------------------------------
(* The writes of the validator store, from a store that tracks no validator *)

SetValidatorPower(identity_key, voting_power) ==
    /\ store' = set_validator_power(store, identity_key, voting_power).st
    /\ reply' = [NoReply EXCEPT !.op = "set_validator_power", !.id = identity_key,
                  !.voting_power = voting_power,
                  !.ok = set_validator_power(store, identity_key, voting_power).ok]
    /\ UNCHANGED <<index, inner, cache, ret, steps, seen, before, kept, other, agree, errs,
                   since_full, shape, readers>>

SetInitialValidatorState(id, initial_state) ==
    /\ store' = set_initial_validator_state(store, id, initial_state).st
    /\ reply' = [NoReply EXCEPT !.op = "set_initial_validator_state", !.id = id,
                  !.initial_state = initial_state,
                  !.ok = set_initial_validator_state(store, id, initial_state).ok]
    /\ UNCHANGED <<index, inner, cache, ret, steps, seen, before, kept, other, agree, errs,
                   since_full, shape, readers>>

NextStore ==
    \/ \E identity_key \in IdentityKeys, voting_power \in VotingPowers :
            SetValidatorPower(identity_key, voting_power)
    \/ \E id \in IdentityKeys, initial_state \in ValidatorStates :
            SetInitialValidatorState(id, initial_state)

SpecStore == Init /\ [][NextStore]_vars

-----------------------------------------------------------------------------
(* State functions the properties are written with *)

StNext == Eternity(index', inner', cache')

\* The positions of the tree that hold a kept leaf under kept ancestors.
FullLeaves(t) ==
    {p \in {Position(e, b, i) : e \in 0..(Cap - 1), b \in 0..(Cap - 1), i \in 0..(Cap - 1)} :
        tier_witness(t, p).some}

\* The slot at a position when its epoch and block are kept and hold it.
HasSlot(t, p) ==
    /\ p.epoch < Len(t) /\ t[p.epoch + 1].tag = "Keep"
    /\ p.block < Len(t[p.epoch + 1].val) /\ t[p.epoch + 1].val[p.block + 1].tag = "Keep"
    /\ p.item < Len(t[p.epoch + 1].val[p.block + 1].val)

SlotAt(t, p) == t[p.epoch + 1].val[p.block + 1].val[p.item + 1]

\* The position of the most recently appended leaf of a tree whose most
\* recent epoch and block are kept and non-empty.
LastLeaf(t) ==
    Position(Len(t) - 1, Len(t[Len(t)].val) - 1,
             Len(t[Len(t)].val[Len(t[Len(t)].val)].val) - 1)

\* The last call inserted c in Keep mode, on its own or inside a block or epoch.
KeepInserted(r, c) ==
    /\ r.ok
    /\ \/ r.op = "insert" /\ r.w = "Keep" /\ r.c = c
       \/ r.op \in {"insert_block", "insert_epoch"} /\ c \in r.ks

\* The number of leaves of the block insert() appends to: the most recent
\* block of the most recent epoch, opened empty where there is none yet;
\* -1 where the most recent epoch or block is a summary.
OpenLeaves(t) ==
    IF ~focus(t).some THEN 0
    ELSE IF focus(t).slot.tag = "Hash" THEN -1
    ELSE LET fb == focus(focus(t).slot.val)
         IN  IF ~fb.some THEN 0
             ELSE IF fb.slot.tag = "Hash" THEN -1
             ELSE Len(fb.slot.val)

\* The number of blocks of the epoch insert_block() appends to: the most
\* recent epoch, opened empty where there is none yet; -1 where it is a summary.
OpenBlocks(t) ==
    IF ~focus(t).some THEN 0
    ELSE IF focus(t).slot.tag = "Hash" THEN -1
    ELSE Len(focus(t).slot.val)

\* Every position of a tree whose tiers hold Cap slots.
Positions ==
    {Position(e, b, i) : e \in 0..(Cap - 1), b \in 0..(Cap - 1), i \in 0..(Cap - 1)}

\* The positions of the leaves attached under kept epochs and blocks,
\* witnessed or forgotten.
Leaves(t) == {p \in Positions : HasSlot(t, p)}

\* p is before q in the order of (epoch, block, offset).
PosLess(p, q) ==
    \/ p.epoch < q.epoch
    \/ p.epoch = q.epoch /\ p.block < q.block
    \/ p.epoch = q.epoch /\ p.block = q.block /\ p.item < q.item

\* The first position behind everything attached so far: the next offset of
\* the open block, the next block behind a summary block, the next epoch
\* behind a summary epoch.
NextFree(t) ==
    IF ~focus(t).some THEN Position(0, 0, 0)
    ELSE IF focus(t).slot.tag = "Hash" THEN Position(Len(t), 0, 0)
    ELSE LET et == focus(t).slot.val
         IN  IF ~focus(et).some THEN Position(Len(t) - 1, 0, 0)
             ELSE IF focus(et).slot.tag = "Hash" THEN Position(Len(t) - 1, Len(et), 0)
             ELSE Position(Len(t) - 1, Len(et) - 1, Len(focus(et).slot.val))

-----------------------------------------------------------------------------
(* Properties *)

\* C1: forget(c) of an indexed commitment c leaves the value root() returns
\* unchanged, whether or not the root was memoized before the call.
C1_ForgetKeepsRoot ==
    [][\A c \in Commitments :
          (c \in DOMAIN index /\ ret'.op = "forget" /\ ret'.c = c)
              => root(StNext) = root(St)]_vars

\* The root was memoized and then a witnessed leaf forgotten.
C1_Witness ==
    /\ ret.op = "forget" /\ ret.ok
    /\ cache.valid
    /\ ret.c \notin DOMAIN index

\* C2: after forget(c), witness(c) is None, and a commitment that cannot be
\* witnessed stays so across every call that does not successfully insert
\* it in Keep mode (alone, or inside a block or an epoch).
C2_ForgottenStaysUnwitnessed ==
    [][\A c \in Commitments :
          /\ (ret'.op = "forget" /\ ret'.c = c) => ~witness(StNext, c).some
          /\ (~witness(St, c).some /\ ~KeepInserted(ret', c)) => ~witness(StNext, c).some]_vars

\* A commitment was kept, forgotten, and another insertion succeeded after.
C2_Witness ==
    \E c \in kept :
        /\ c \notin DOMAIN index
        /\ ~witness(St, c).some
        /\ ret.op \in {"insert", "insert_block", "insert_epoch"} /\ ret.ok
        /\ ~KeepInserted(ret, c)

\* C3: every indexed commitment has a witness, and the witness verifies
\* against the current root.
C3_WitnessVerifies ==
    \A c \in DOMAIN index :
        /\ witness(St, c).some
        /\ verify(witness(St, c), root(St)) = "Ok"

\* Two commitments are witnessed, one of them in the second epoch.
C3_Witness ==
    /\ Cardinality(DOMAIN index) >= 2
    /\ \E c \in DOMAIN index : index[c].epoch = 1 /\ verify(witness(St, c), root(St)) = "Ok"

\* C4: a witness of an indexed commitment fails to verify against every
\* root the tree had before the commitment's latest insertion, and fails as
\* a digest mismatch.
C4_OldRootDigestMismatch ==
    \A c \in DOMAIN index :
        \A r \in before[c] : verify(witness(St, c), r) = "DigestMismatch"

\* A witnessed commitment whose latest insertion came after two different roots.
C4_Witness ==
    \E c \in DOMAIN index :
        /\ Cardinality(before[c]) >= 2
        /\ witness(St, c).some
        /\ root(St) \notin before[c]

\* C5: the index holds exactly the witnessable commitments: every key maps
\* to a kept leaf holding it, and every kept leaf is the one its
\* commitment's key maps to.
C5_IndexIsWitnessable ==
    /\ \A c \in DOMAIN index :
          /\ index[c] \in FullLeaves(inner)
          /\ SlotAt(inner, index[c]).val = c
    /\ \A p \in FullLeaves(inner) :
          /\ SlotAt(inner, p).val \in DOMAIN index
          /\ index[SlotAt(inner, p).val] = p

\* An inserted epoch took over the index entry of a commitment kept earlier.
C5_Witness ==
    /\ ret.op = "insert_epoch" /\ ret.ok
    /\ \E c \in ret.ks :
          /\ c \in DOMAIN index
          /\ \E p \in {Position(e, b, i) : e \in 0..(Cap - 1), b \in 0..(Cap - 1),
                                           i \in 0..(Cap - 1)} :
                /\ p # index[c]
                /\ HasSlot(inner, p)
                /\ SlotAt(inner, p) = HashItem(HashOf(c))

\* C6: a successful insert(Keep, c) leaves c witnessed at the newly appended
\* leaf only; no other kept leaf holds c, and the leaf at the position the
\* index held before is a summary that still contributes the hash of c, so
\* that the root is the one of the tree with both leaves kept.
C6_ReinsertEvicts ==
    [][\A c \in Commitments :
          (ret'.op = "insert" /\ ret'.w = "Keep" /\ ret'.ok /\ ret'.c = c)
              => /\ witness(StNext, c).some
                 /\ witness(StNext, c).index = LastLeaf(inner')
                 /\ \A p \in FullLeaves(inner') :
                        SlotAt(inner', p).val = c => p = LastLeaf(inner')
                 /\ c \in DOMAIN index
                        => /\ index[c] # LastLeaf(inner')
                           /\ ~tier_witness(inner', index[c]).some
                           /\ HasSlot(inner', index[c])
                           /\ SlotAt(inner', index[c]) = HashItem(HashOf(c))
                           /\ root(StNext) =
                                tier_hash([inner' EXCEPT
                                    ![index[c].epoch + 1].val[index[c].block + 1]
                                        .val[index[c].item + 1] = KeepItem(c)])]_vars

\* A commitment kept twice: the older leaf is a summary, the newer is witnessed.
C6_Witness ==
    /\ ret.op = "insert" /\ ret.w = "Keep" /\ ret.ok
    /\ witness(St, ret.c).some
    /\ \E p \in {Position(e, b, i) : e \in 0..(Cap - 1), b \in 0..(Cap - 1),
                                     i \in 0..(Cap - 1)} :
          /\ p # index[ret.c]
          /\ HasSlot(inner, p)
          /\ SlotAt(inner, p) = HashItem(HashOf(ret.c))

\* C7: root() and witness() change nothing a caller can observe, and the
\* value root() returns is the hash of the tree as the mutating calls left
\* it, whatever reads came in between.
C7_ReadsArePure ==
    [][/\ ret'.op \in {"root", "witness"}
            => /\ index' = index
               /\ inner' = inner
               /\ len(StNext) = len(St)
               /\ is_empty(StNext) = is_empty(St)
               /\ root(StNext) = root(St)
               /\ \A c \in Commitments : witness(StNext, c) = witness(St, c)
       /\ ret'.op = "root" => ret'.h = tier_hash(inner')
       /\ root(StNext) = tier_hash(inner')]_vars

\* A root() read of a non-empty tree, after two earlier calls, returning a new value.
C7_Witness ==
    /\ ret.op = "root"
    /\ steps >= 3
    /\ Len(inner) > 0
    /\ ret.h \notin seen

\* C8 as stated: two eternities given the same insertions at different
\* retention have equal roots after every step.
C8_RetentionNeverChangesRoot == root(St) = root(other)

\* C8: two eternities given the same insertions at different retention have
\* equal roots after every step up to the first step at which an insertion
\* fails on either of them.
C8_RetentionKeepsRootWhileBothSucceed == agree => root(St) = root(other)

\* Three insertions succeeded on both eternities, which differ in what they retain.
C8_Witness ==
    /\ agree
    /\ steps >= 3
    /\ inner # other.inner
    /\ index # other.index
    /\ root(St) = root(other)

\* C9: after a successful insert(Keep, c), witness(c) is Some; a successful
\* insert in Forget mode leaves the index as it was; a commitment never
\* inserted in Keep mode has no witness.
C9_KeepWitnessedDiscardNot ==
    [][/\ (ret'.op = "insert" /\ ret'.ok /\ ret'.w = "Keep") => witness(StNext, ret'.c).some
       /\ (ret'.op = "insert" /\ ret'.ok /\ ret'.w = "Forget") => index' = index
       /\ \A c \in Commitments \ kept' : c \notin DOMAIN index' /\ ~witness(StNext, c).some]_vars

\* One commitment kept and witnessed, another inserted in Forget mode only.
C9_Witness ==
    /\ ret.op = "insert" /\ ret.ok /\ ret.w = "Forget"
    /\ ret.c \notin kept
    /\ ~witness(St, ret.c).some
    /\ \E c \in kept : witness(St, c).some

\* C10: after n successful insert calls on a fresh eternity (n within one
\* block), len() is n.
C10_LenCountsLeaves ==
    (/\ ret.op = "insert" /\ ret.ok
     /\ Len(inner) = 1 /\ inner[1].tag = "Keep"
     /\ Len(inner[1].val) = 1 /\ inner[1].val[1].tag = "Keep"
     /\ Len(inner[1].val[1].val) = steps)
        => len(St) = U64(steps)

\* C11: len() never decreases: after any insert, insert_block,
\* insert_block_root, insert_epoch, insert_epoch_root or forget call, failed
\* or not, it is at least what it was before the call.
C11_LenNeverDecreases ==
    [][ret'.op \in InsertOps \cup {"forget"} => U64Leq(len(St), len(StNext))]_vars

\* C12: forget(c) leaves len() and is_empty() as they were, for indexed and
\* non-indexed c alike.
C12_ForgetKeepsLen ==
    [][ret'.op = "forget"
          => /\ len(StNext) = len(St)
             /\ is_empty(StNext) = is_empty(St)]_vars

\* The last witnessed leaf of the open block of the open epoch was forgotten.
C12_Witness ==
    /\ ret.op = "forget" /\ ret.ok
    /\ focus(inner).some /\ focus(inner).slot.tag = "Keep"
    /\ focus(focus(inner).slot.val).some /\ focus(focus(inner).slot.val).slot.tag = "Keep"
    /\ LET bt == focus(focus(inner).slot.val).slot.val
       IN  /\ \E j \in 1..Len(bt) : bt[j] = HashItem(HashOf(ret.c))
           /\ \A j \in 1..Len(bt) : bt[j].tag = "Hash"

C14_LeafCapacity ==
    [][(ret'.op = "insert" /\ OpenLeaves(inner) >= 0)
          => /\ ret'.ok <=> OpenLeaves(inner) < Cap
             /\ ret'.ok => OpenLeaves(inner') = OpenLeaves(inner) + 1
             /\ ~ret'.ok => /\ ret'.err = "BlockFull"
                            /\ ret'.back = BackCommitment(ret'.c)
                            /\ ret'.back = ret'.arg
                            /\ inner' = inner
                            /\ index' = index]_vars

\* On a fresh eternity Cap inserts of one commitment succeeded and the next
\* insert, of another commitment, was refused.
C14_Witness ==
    /\ ret.op = "insert" /\ ~ret.ok /\ ret.w = "Keep"
    /\ steps = Cap + 1
    /\ ret.c \notin DOMAIN index
    /\ Len(inner) = 1 /\ Len(inner[1].val) = 1
    /\ OpenLeaves(inner) = Cap
    /\ \E c \in Commitments \ {ret.c} :
          /\ inner[1].val[1].val[Cap] = KeepItem(c)
          /\ \A j \in 1..(Cap - 1) : inner[1].val[1].val[j] = HashItem(HashOf(c))

C16_FullIsPermanent ==
    [][/\ Len(inner') >= Len(inner)
       /\ (EpochRefused /\ ret'.op \in {"insert_epoch", "insert_epoch_root"})
            => (~ret'.ok /\ ret'.err = "Full")]_vars

\* An epoch was refused, then a witnessed commitment was forgotten, then an
\* epoch was refused again.
C16_Witness ==
    /\ ret.op \in {"insert_epoch", "insert_epoch_root"} /\ ~ret.ok
    /\ "forget" \in since_full
    /\ steps >= 3

\* C17: while the most recent epoch is summary-only, insert fails as
\* EpochForgotten and hands the commitment back, and insert_block and
\* insert_block_root fail as EpochForgotten; the most recent epoch stays
\* summary-only until an insert_epoch call succeeds, and no call fails as
\* EpochForgotten in any other state.
C17_SummaryEpochRefuses ==
    [][/\ OpenBlocks(inner) = -1
            => /\ ret'.op = "insert"
                    => /\ ~ret'.ok /\ ret'.err = "EpochForgotten"
                       /\ ret'.back = BackCommitment(ret'.c)
               /\ ret'.op \in {"insert_block", "insert_block_root"}
                    => (~ret'.ok /\ ret'.err = "EpochForgotten")
               /\ ~(ret'.op = "insert_epoch" /\ ret'.ok) => OpenBlocks(inner') = -1
       /\ (ret'.op = "insert_epoch_root" /\ ret'.ok) => OpenBlocks(inner') = -1
       /\ (ret'.op = "insert_epoch" /\ ret'.ok) => OpenBlocks(inner') >= 0
       /\ (ret'.op \in InsertOps /\ ret'.err = "EpochForgotten") => OpenBlocks(inner) = -1]_vars

\* After insert_epoch_root, an insert and then an insert_block were refused.
C17_Witness ==
    /\ ret.op = "insert_block" /\ ~ret.ok /\ ret.err = "EpochForgotten"
    /\ <<"insert", "EpochForgotten">> \in errs
    /\ Len(inner) = 1 /\ inner[1].tag = "Hash"

\* C18: an insert, insert_block, insert_block_root, insert_epoch or
\* insert_epoch_root call that returns an error leaves root(), len(),
\* is_empty(), the index, the tree and every witness(d) as they were.
C18_FailedInsertChangesNothing ==
    [][(ret'.op \in InsertOps /\ ~ret'.ok)
          => /\ root(StNext) = root(St)
             /\ len(StNext) = len(St)
             /\ is_empty(StNext) = is_empty(St)
             /\ index' = index
             /\ inner' = inner
             /\ \A d \in Commitments : witness(StNext, d) = witness(St, d)]_vars

\* With a commitment witnessed and the root memoized, an insertion of
\* another commitment was refused.
C18_Witness ==
    /\ ret.op \in InsertOps /\ ~ret.ok
    /\ cache.valid
    /\ \E d \in DOMAIN index : witness(St, d).some /\ d # ret.c /\ d \notin ret.ks

\* C19 as stated: every refused insertion hands back the value passed in,
\* the root-only insert_block_root and insert_epoch_root the hash.
C19_EveryFailureReturnsInput ==
    (ret.op \in InsertOps /\ ~ret.ok) => ret.back = ret.arg

\* C19: a refused insert hands back the commitment, a refused insert_block
\* a Block equal to the one passed in, a refused insert_epoch an Epoch equal
\* to the one passed in; a refused insert_block_root or insert_epoch_root
\* returns an error that carries no value.
C19_FailureReturnsValueOrUnit ==
    /\ (ret.op \in {"insert", "insert_block", "insert_epoch"} /\ ~ret.ok)
            => ret.back = ret.arg
    /\ (ret.op \in {"insert_block_root", "insert_epoch_root"} /\ ~ret.ok)
            => ret.back = BackUnit

\* A root-only insertion was refused, and then a block that witnesses a
\* commitment was refused and handed back.
C19_Witness ==
    /\ ret.op = "insert_block" /\ ~ret.ok
    /\ ret.arg.block.index # EmptyIndex
    /\ ret.back = BackBlock(ret.arg.block)
    /\ \E op \in {"insert_block_root", "insert_epoch_root"}, e \in {"Full", "EpochFull", "EpochForgotten"} :
          <<op, e>> \in errs

\* C20: forget(c) returns true exactly when c was in the index, and c is not
\* in the index afterwards while every other entry stays; the tree has
\* forgotten what the index named (the debug assertion holds); when it
\* returns false, the index, the tree, root() and len() are as they were;
\* a forget(c) right after a forget(c) returns false.
C20_ForgetReportsIndexed ==
    [][ret'.op = "forget"
          => /\ ret'.ok <=> ret'.c \in DOMAIN index
             /\ ret'.asserted
             /\ index' = IndexRemove(index, ret'.c)
             /\ ~ret'.ok => /\ index' = index
                            /\ inner' = inner
                            /\ root(StNext) = root(St)
                            /\ len(StNext) = len(St)
             /\ (ret.op = "forget" /\ ret.c = ret'.c) => ~ret'.ok]_vars

\* A commitment was kept, forgotten, and forgotten again: the second
\* forget returned false.
C20_Witness ==
    /\ ret.op = "forget" /\ ~ret.ok
    /\ ret.c \in kept
    /\ ret.c \notin DOMAIN index
    /\ steps = 3

\* C21: after a successful insert_block(B), every commitment of B's index,
\* at offset o there, is in the index at (the most recent epoch, the block B
\* became in it, o) and has a witness; the position the index held for it
\* before is a summary leaf that cannot be witnessed; every other entry of
\* the index is as it was.
C21_InsertBlockMergesIndex ==
    [][(ret'.op = "insert_block" /\ ret'.ok)
          => LET b == ret'.arg.block
                 e == Len(inner')
                 n == Len(inner'[e].val)
             IN  /\ inner'[e].val[n] = KeepTier(b.inner)
                 /\ DOMAIN index' = DOMAIN index \cup DOMAIN b.index
                 /\ \A c \in DOMAIN b.index :
                       /\ index'[c] = Position(e - 1, n - 1, b.index[c])
                       /\ witness(StNext, c).some
                       /\ c \in DOMAIN index
                            => /\ index[c] # index'[c]
                               /\ HasSlot(inner', index[c])
                               /\ SlotAt(inner', index[c]) = HashItem(HashOf(c))
                               /\ ~tier_witness(inner', index[c]).some
                 /\ \A c \in DOMAIN index \ DOMAIN b.index : index'[c] = index[c]
                 /\ ret'.asserted]_vars

\* Two commitments were kept one by one, and then a block keeping the first
\* of them was inserted: its entry moved to the block, the other stayed.
C21_Witness ==
    /\ ret.op = "insert_block" /\ ret.ok
    /\ \E c \in ret.ks, d \in DOMAIN index \ ret.ks :
          /\ index[c] = Position(0, 1, 0)
          /\ index[d] = Position(0, 0, 1)
          /\ SlotAt(inner, Position(0, 0, 0)) = HashItem(HashOf(c))
          /\ witness(St, c).some /\ witness(St, d).some

\* C22: after a successful insert_epoch(E), every commitment of E's index,
\* at (block b, offset o) there, is in the index at (e, b, o), e being the
\* number of epochs held before the call, and has a witness; the position
\* the index held for it before is a summary leaf that cannot be witnessed;
\* every other entry of the index is as it was.
C22_InsertEpochMergesIndex ==
    [][(ret'.op = "insert_epoch" /\ ret'.ok)
          => LET ep == ret'.arg.epoch
                 e == Len(inner)
             IN  /\ Len(inner') = e + 1
                 /\ inner'[e + 1] = KeepTier(ep.inner)
                 /\ DOMAIN index' = DOMAIN index \cup DOMAIN ep.index
                 /\ \A c \in DOMAIN ep.index :
                       /\ index'[c] = Position(e, ep.index[c].block, ep.index[c].item)
                       /\ witness(StNext, c).some
                       /\ c \in DOMAIN index
                            => /\ index[c] # index'[c]
                               /\ HasSlot(inner', index[c])
                               /\ SlotAt(inner', index[c]) = HashItem(HashOf(c))
                               /\ ~tier_witness(inner', index[c]).some
                 /\ \A c \in DOMAIN index \ DOMAIN ep.index : index'[c] = index[c]]_vars

\* Two commitments were kept one by one, and then an epoch keeping the first
\* of them was inserted: its entry moved to the epoch, the other stayed.
C22_Witness ==
    /\ ret.op = "insert_epoch" /\ ret.ok
    /\ \E c \in ret.ks, d \in DOMAIN index \ ret.ks :
          /\ index[c] = Position(1, 0, 0)
          /\ index[d] = Position(0, 0, 1)
          /\ SlotAt(inner, Position(0, 0, 0)) = HashItem(HashOf(c))
          /\ witness(St, c).some /\ witness(St, d).some

\* C23: a successful insert_block_root(h) or insert_epoch_root(h) leaves the
\* index exactly as it was and forgets nothing: the kept leaves of the tree
\* and the commitments that have a witness are the same as before.
C23_RootInsertKeepsIndex ==
    [][(ret'.op \in {"insert_block_root", "insert_epoch_root"} /\ ret'.ok)
          => /\ index' = index
             /\ FullLeaves(inner') = FullLeaves(inner)
             /\ \A p \in FullLeaves(inner) : SlotAt(inner', p) = SlotAt(inner, p)
             /\ \A c \in Commitments :
                   /\ witness(StNext, c).some <=> witness(St, c).some
                   /\ witness(StNext, c).some
                        => witness(StNext, c).index = witness(St, c).index
             /\ ret'.asserted]_vars

\* With a commitment witnessed, a block root and then an epoch root were
\* inserted, and the commitment is witnessed still.
C23_Witness ==
    /\ ret.op = "insert_epoch_root" /\ ret.ok
    /\ Len(inner) = 2 /\ inner[1].tag = "Keep" /\ Len(inner[1].val) = 2
    /\ inner[1].val[2].tag = "Hash"
    /\ \E c \in DOMAIN index : index[c] = Position(0, 0, 0) /\ witness(St, c).some

\* C24: a successful insert(Keep, c) changes the index at key c only, which
\* then maps to (most recent epoch, its most recent block, offset of the
\* leaf just appended); every other key keeps its value, and no key is added
\* or removed besides c.
C24_InsertTouchesOneEntry ==
    [][(ret'.op = "insert" /\ ret'.w = "Keep" /\ ret'.ok)
          => /\ index' = IndexInsert(index, ret'.c, LastLeaf(inner'))
             /\ DOMAIN index' = DOMAIN index \cup {ret'.c}
             /\ \A d \in DOMAIN index \ {ret'.c} : index'[d] = index[d]
             /\ index'[ret'.c].epoch = Len(inner') - 1
             /\ index'[ret'.c].block = Len(inner'[Len(inner')].val) - 1
             /\ SlotAt(inner', index'[ret'.c]) = KeepItem(ret'.c)]_vars

\* A commitment was kept in the first epoch, an epoch opened, and another
\* commitment kept in it: each is indexed under its own epoch.
C24_Witness ==
    /\ ret.op = "insert" /\ ret.w = "Keep" /\ ret.ok
    /\ index[ret.c] = Position(1, 0, 0)
    /\ \E d \in DOMAIN index \ {ret.c} : index[d] = Position(0, 0, 0)

\* C25: positions are given out in increasing order.  Over every call, the
\* leaves attached before stay at their positions with their hashes; every
\* leaf a successful insertion attaches is at or behind the first free
\* position, hence behind every leaf attached earlier and never inside a
\* closed block or epoch; a position newly written to the index is that of
\* a newly attached leaf; and the first free position never moves back.
C25_PositionsIncrease ==
    [][/\ \A q \in Leaves(inner) :
             /\ HasSlot(inner', q)
             /\ item_hash(SlotAt(inner', q)) = item_hash(SlotAt(inner, q))
       /\ \A p \in Leaves(inner') \ Leaves(inner) :
             /\ ret'.op \in InsertOps /\ ret'.ok
             /\ p = NextFree(inner) \/ PosLess(NextFree(inner), p)
             /\ \A q \in Leaves(inner) : PosLess(q, p)
       /\ \A c \in DOMAIN index' :
             (c \notin DOMAIN index \/ index'[c] # index[c])
                 => index'[c] \in Leaves(inner') \ Leaves(inner)
       /\ NextFree(inner') = NextFree(inner) \/ PosLess(NextFree(inner), NextFree(inner'))]_vars

\* A leaf was inserted, then a block of one leaf, then a leaf again: the
\* three leaves sit at (0,0,0), (0,1,0) and (0,1,1).
C25_Witness ==
    /\ ret.op = "insert" /\ ret.ok
    /\ steps = 3
    /\ Leaves(inner) = {Position(0, 0, 0), Position(0, 1, 0), Position(0, 1, 1)}
    /\ NextFree(inner) = Position(0, 1, 2)

\* C26: the position of an indexed commitment d never changes.  Over every
\* call that does not insert d anew in Keep mode, a position witness(d)
\* reports afterwards is the one it reported before; and unless the call is
\* forget(d) itself, d stays in the index at its position and keeps a
\* witness: forget(c) for another c and insertions of other commitments
\* leave it witnessable where it was.
C26_PositionsImmutable ==
    [][\A d \in DOMAIN index :
          ~KeepInserted(ret', d)
              => /\ witness(StNext, d).some
                    => witness(StNext, d).index = witness(St, d).index
                 /\ ~(ret'.op = "forget" /\ ret'.c = d)
                    => /\ d \in DOMAIN index'
                       /\ index'[d] = index[d]
                       /\ witness(StNext, d).some
                       /\ witness(StNext, d).index = index[d]
                       /\ witness(StNext, d).leaf = d]_vars

\* Two commitments were kept in one block and the first of them forgotten:
\* the second is witnessed at the offset it was given.
C26_Witness ==
    /\ ret.op = "forget" /\ ret.ok
    /\ SlotAt(inner, Position(0, 0, 0)) = HashItem(HashOf(ret.c))
    /\ \E d \in DOMAIN index \ {ret.c} :
          /\ index[d] = Position(0, 0, 1)
          /\ witness(St, d).some
          /\ witness(St, d).index = Position(0, 0, 1)

BlockRefusedInsert ==
    \E e \in {"BlockFull", "BlockForgotten"} : <<"insert", e>> \in errs

\* An insert has failed because the most recent epoch was full or summary-only.
EpochRefusedInsert ==
    \E e \in {"EpochFull", "EpochForgotten"} : <<"insert", e>> \in errs

C29_StartingEpochIgnored ==
    [][(/\ reply.op = "compute_unbonding_epoch" /\ reply.ok
        /\ reply'.op = "compute_unbonding_epoch" /\ reply'.ok
        /\ reply'.id = reply.id
        /\ store' = store)
          => /\ get_validator_bonding_state(store, reply.id).kind \in {"Unbonded", "Unbonding"}
                  => reply'.epoch = reply.epoch
             /\ get_validator_bonding_state(store, reply.id).kind = "Bonded"
                  => reply'.epoch =
                        U64SaturatingAdd(reply'.starting_epoch, store.unbonding_epochs)]_vars

\* C30: the consistency assertions never fail.  The call last made passed
\* its assertions, and in every reachable state every call that could be
\* made next passes them: the tier's forget returns true in forget(c), in
\* insert for the replaced position, and in insert_block and
\* insert_block_root for every replaced position; and the leaf hash
\* witness(c) finds at the indexed position is Hash::of(c).
C30_AssertionsHold ==
    /\ ret.asserted
    /\ \A c \in Commitments :
          /\ forget(St, c).asserted
          /\ c \in DOMAIN index => tier_forget(inner, index[c]).forgotten
          /\ witness_asserted(St, c)
          /\ \A w \in Witnesses : insert(St, w, c).asserted
    /\ \A b \in InputBlocks : insert_block(St, b).asserted
    /\ \A h \in InputBlockRoots : insert_block_root(St, h).asserted

\* A commitment was kept, a block keeping it again was inserted, and it was
\* forgotten: each call forgot a kept leaf, and the two leaves are summaries.
C30_Witness ==
    /\ ret.op = "forget" /\ ret.ok /\ ret.asserted
    /\ steps = 3
    /\ HasSlot(inner, Position(0, 0, 0)) /\ HasSlot(inner, Position(0, 1, 0))
    /\ SlotAt(inner, Position(0, 0, 0)) = HashItem(HashOf(ret.c))
    /\ SlotAt(inner, Position(0, 1, 0)) = HashItem(HashOf(ret.c))
    /\ index = EmptyIndex

\* C31: len() counts a summary-only node as if it were full: every epoch
\* before the most recent one is counted at 2^32 leaves; a summary-only most
\* recent epoch is counted at 2^32 leaves too; and a summary-only most recent
\* block is counted at 65,536 leaves, behind 65,536 leaves for every earlier
\* block of its epoch. No bit of the count is lost in the 32-bit shift.
C31_SummaryCountedFull ==
    /\ OpenBlocks(inner) = -1 => len(St) = <<0, 0, Len(inner), 0>>
    /\ (OpenBlocks(inner) # -1 /\ OpenLeaves(inner) = -1)
           => len(St) = <<0, Len(inner[Len(inner)].val), Len(inner) - 1, 0>>

\* C32: insert, insert_block and insert_block_root called on an empty
\* eternity open one epoch and succeed: afterwards the eternity holds exactly
\* one epoch, a kept one, with exactly one block in it, and a commitment
\* inserted with Keep is indexed at (epoch 0, block 0, offset 0).
C32_AutoOpenOnEmpty ==
    [][(is_empty(St) /\ ret'.op \in {"insert", "insert_block", "insert_block_root"})
        => /\ ret'.ok
           /\ Len(inner') = 1 /\ inner'[1].tag = "Keep"
           /\ Len(inner'[1].val) = 1
           /\ (ret'.op = "insert" /\ ret'.w = "Keep")
                  => /\ ret'.c \in DOMAIN index'
                     /\ index'[ret'.c] = Position(0, 0, 0)
                     /\ HasSlot(inner', Position(0, 0, 0))
                     /\ SlotAt(inner', Position(0, 0, 0)) = KeepItem(ret'.c)]_vars

\* An insert with Keep on the empty eternity has opened epoch 0 and indexed
\* its commitment at the first position.
C32_Witness ==
    /\ steps = 1 /\ ret.op = "insert" /\ ret.ok /\ ret.w = "Keep"
    /\ Len(inner) = 1
    /\ ret.c \in DOMAIN index /\ index[ret.c] = Position(0, 0, 0)

\* The calls that open a first epoch on an empty eternity.
AutoOpening == {"insert", "insert_block", "insert_block_root"}

C34_EmptyIffLenZero ==
    [][/\ is_empty(St) <=> len(St) = U64(0)
       /\ is_empty(StNext) <=> len(StNext) = U64(0)
       /\ steps = 0 => \A sh \in LenInputs :
                           sh.epochs = 0 <=> len_of(sh.epochs, sh.focus) = U64(0)
       /\ (ret'.op \in InsertOps /\ ret'.ok) => ~is_empty(StNext)
       /\ ~is_empty(St) => ~is_empty(StNext)
       /\ is_empty(StNext) => (is_empty(St) /\ ~(ret'.op \in InsertOps /\ ret'.ok))]_vars

\* An epoch without leaves was attached and a forget call followed: the
\* eternity is not empty and its len() is not 0.
C34_Witness ==
    /\ inner = <<KeepTier(<<>>)>> /\ ret.op = "forget" /\ steps = 2
    /\ ~is_empty(St) /\ len(St) # U64(0)

\* C35: a successful insert(Forget, c) of a commitment c that is indexed
\* leaves the index entry of c as it was; witness(c) still returns a proof at
\* that position, and the proof verifies against the new root(); the leaf
\* just appended is another position and is not witnessable.
C35_DiscardNeverEvicts ==
    [][(ret'.op = "insert" /\ ret'.ok /\ ret'.w = "Forget" /\ ret'.c \in DOMAIN index)
        => /\ index' = index
           /\ witness(StNext, ret'.c).some
           /\ witness(StNext, ret'.c).index = index[ret'.c]
           /\ verify(witness(StNext, ret'.c), root(StNext)) = "Ok"
           /\ HasSlot(inner', LastLeaf(inner'))
           /\ LastLeaf(inner') # index[ret'.c]
           /\ ~HasSlot(inner, LastLeaf(inner'))
           /\ SlotAt(inner', LastLeaf(inner')) = HashItem(HashOf(ret'.c))
           /\ ~tier_witness(inner', LastLeaf(inner')).some]_vars

\* A commitment kept earlier was inserted again in Forget mode and is still
\* witnessed at a position before the new leaf.
C35_Witness ==
    /\ ret.op = "insert" /\ ret.ok /\ ret.w = "Forget"
    /\ ret.c \in kept /\ ret.c \in DOMAIN index
    /\ witness(St, ret.c).some
    /\ PosLess(index[ret.c], LastLeaf(inner))
    /\ verify(witness(St, ret.c), root(St)) = "Ok"

\* C36: no stored voting power exceeds MAX_VOTING_POWER.  A
\* set_validator_power call with a power above the maximum returns an error
\* and leaves the store as it was, the power stored before under that
\* identity key included; a call with any other power succeeds and stores
\* the power under the identity key, changing nothing else.
C36_PowerWithinMaximum ==
    [][/\ \A id \in IdentityKeys :
              store.power[id].some => U128Leq(store.power[id].value, MAX_VOTING_POWER)
       /\ \A id \in IdentityKeys :
              store'.power[id].some => U128Leq(store'.power[id].value, MAX_VOTING_POWER)
       /\ reply'.op = "set_validator_power"
              => IF U128Leq(reply'.voting_power, MAX_VOTING_POWER)
                 THEN /\ reply'.ok
                      /\ store' = [store EXCEPT !.power[reply'.id] =
                                      [some |-> TRUE, value |-> reply'.voting_power]]
                 ELSE ~reply'.ok /\ store' = store]_vars

\* A power above the maximum was refused for a validator that has a power
\* stored, and another validator has the maximum itself stored.
C36_Witness ==
    /\ reply.op = "set_validator_power" /\ ~reply.ok
    /\ ~U128Leq(reply.voting_power, MAX_VOTING_POWER)
    /\ store.power[reply.id].some
    /\ \E id \in IdentityKeys \ {reply.id} :
           store.power[id] = [some |-> TRUE, value |-> MAX_VOTING_POWER]

\* C37: set_initial_validator_state with a state other than Active or
\* Defined returns an error and leaves the store as it was; with Active or
\* Defined it succeeds and stores that state under the validator's identity
\* key, changing nothing else.
C37_InitialStateActiveOrDefined ==
    [][reply'.op = "set_initial_validator_state"
        => IF reply'.initial_state \in {"Active", "Defined"}
           THEN /\ reply'.ok
                /\ store' = [store EXCEPT !.state[reply'.id] = reply'.initial_state]
           ELSE ~reply'.ok /\ store' = store]_vars

\* An initial state of Inactive was refused for a validator stored as Active.
C37_Witness ==
    /\ reply.op = "set_initial_validator_state" /\ ~reply.ok
    /\ reply.initial_state = "Inactive"
    /\ store.state[reply.id] = "Active"

====
